---- MODULE Spec2Model ----
(***************************************************************************)
(* Model of src/Dashboard/dashboard.py: a Streamlit script that is re-run  *)
(* top to bottom on every interaction.  One run is: load_data() (memoized  *)
(* by @st.cache_data), the emptiness check with st.stop(), the derived     *)
(* date column, the recency filter, and the three question charts.         *)
(*                                                                         *)
(* A table (pandas DataFrame) is [cols |-> set of column names,            *)
(* rows |-> sequence of row records].  A string is a sequence of           *)
(* one-character strings, so that str() and strptime are real conversions. *)
(***************************************************************************)
EXTENDS Integers, Sequences, FiniteSets, TLC

VARIABLES
  fs,             \* file system: location -> file (absent / unparsable / csv)
  cache,          \* the st.cache_data entry of load_data(): None or a table
  first,          \* history: the table produced by the first completed load
  parses,         \* history: read_csv calls that found content to parse
  ok_parses,      \* history: read_csv calls that produced a table
  runs,           \* number of script runs started in this process
  pc,             \* position of the current run in the script
  how,            \* how load_data() ended in this run
  uploaded_file,  \* value of st.file_uploader in this run (Unset if not reached)
  exc,            \* exception that aborted the run, or None
  msgs,           \* st.error / st.warning boxes shown in this run
  df,             \* line 35: the table load_data() returned
  date,           \* line 40: the derived df["date"] column
  df_filtered,    \* lines 41 and 94: the variable df_filtered
  chart1,         \* data handed to the boxplot of question 1
  chart2,         \* data handed to the barplot of question 2
  chart3,         \* data handed to the boxplot of question 3
  months,         \* a month Series handed to .apply(get_season)
  seasons         \* the result of months.apply(get_season)

loaderVars == <<fs, cache, first, parses, ok_parses, runs>>
runVars    == <<pc, how, uploaded_file, exc, msgs, df, date, df_filtered,
                chart1, chart2, chart3>>
fnVars     == <<months, seasons>>
vars       == <<loaderVars, runVars, fnVars>>

\* Python's None and pandas' NaT, as records so that they compare with tables
None == [none |-> TRUE]
NaT  == [nat |-> TRUE]

\* ---------------------------------------------------------------- bounds
MaxRuns   == 3    \* script runs per process
MaxRows   == 3    \* rows of a loaded table
MaxSeries == 2    \* length of a month Series
MaxMonth  == 14   \* largest month value fed to get_season / the date parser

\* ---------------------------------------------------------------- tables
Schema == {"year_day", "month_day", "weekday_day", "weathersit_day",
           "count_day", "casual_day", "registered_day"}

EmptyFrame == [cols |-> Schema, rows |-> <<>>]

Row(y, m, w, c, r) ==
  [year_day |-> y, month_day |-> m, weekday_day |-> w, weathersit_day |-> 1,
   count_day |-> c + r, casual_day |-> c, registered_day |-> r]

SeqsUpTo(S, n) == UNION {[1..k -> S] : k \in 0..n}

RECURSIVE Filter(_, _)
\* df[mask]: the rows of s whose index is in keep, in table order
Filter(s, keep) ==
  IF s = <<>> THEN <<>>
  ELSE LET n == Len(s)
           front == Filter(SubSeq(s, 1, n - 1), keep)
       IN IF n \in keep THEN Append(front, s[n]) ELSE front

Column(t, c) == [i \in 1..Len(t.rows) |-> t.rows[i][c]]

\* DataFrame.empty: any axis of length 0
IsEmpty(t) == t.cols = {} \/ t.rows = <<>>

\* -------------------------------------------------- str() and strptime
DigitChars == <<"0", "1", "2", "3", "4", "5", "6", "7", "8", "9">>

IsDigit(c) == \E d \in 1..10 : DigitChars[d] = c

DigitVal(c) == (CHOOSE d \in 1..10 : DigitChars[d] = c) - 1

RECURSIVE NatStr(_)
NatStr(n) ==
  IF n < 10 THEN <<DigitChars[n + 1]>>
  ELSE Append(NatStr(n \div 10), DigitChars[(n % 10) + 1])

\* .astype(str) of an integer column value
IntStr(n) == IF n < 0 THEN <<"-">> \o NatStr(-n) ELSE NatStr(n)

\* YearMonthStr with the two columns concatenated month first
YearMonthStr_MonthFirst(y, m) == IntStr(m) \o <<"-">> \o IntStr(y)

\* the string handed to pd.to_datetime for one row
YearMonthStr(y, m) == IntStr(y) \o <<"-">> \o IntStr(m)

Fail == [ok |-> FALSE]

\* %m: the alternatives 1[0-2] | 0[1-9] | [1-9], tried in this order
ParseMonth(s) ==
  IF s = <<>> THEN Fail
  ELSE IF Len(s) >= 2 /\ s[1] = "1" /\ s[2] \in {"0", "1", "2"}
    THEN [ok |-> TRUE, month |-> 10 + DigitVal(s[2]), used |-> 2]
  ELSE IF Len(s) >= 2 /\ s[1] = "0" /\ IsDigit(s[2]) /\ s[2] # "0"
    THEN [ok |-> TRUE, month |-> DigitVal(s[2]), used |-> 2]
  ELSE IF IsDigit(s[1]) /\ s[1] # "0"
    THEN [ok |-> TRUE, month |-> DigitVal(s[1]), used |-> 1]
  ELSE Fail

\* format="%Y-%m": exactly four digits, "-", a month, and nothing left over
ParseYearMonth(s) ==
  IF Len(s) < 6 THEN Fail
  ELSE IF ~(\A i \in 1..4 : IsDigit(s[i])) \/ s[5] # "-" THEN Fail
  ELSE LET mm == ParseMonth(SubSeq(s, 6, Len(s)))
       IN IF ~mm.ok THEN Fail
          ELSE IF 5 + mm.used # Len(s) THEN Fail
          ELSE [ok |-> TRUE,
                year |-> 1000 * DigitVal(s[1]) + 100 * DigitVal(s[2])
                         + 10 * DigitVal(s[3]) + DigitVal(s[4]),
                month |-> mm.month]

\* days from 1970-01-01 to the first day of month m of year y
DaysFromCivil(y, m) ==
  LET yy  == IF m <= 2 THEN y - 1 ELSE y
      era == yy \div 400
      yoe == yy - era * 400
      mp  == IF m > 2 THEN m - 3 ELSE m + 9
      doy == (153 * mp + 2) \div 5
      doe == yoe * 365 + yoe \div 4 - yoe \div 100 + doy
  IN era * 146097 + doe - 719468

\* the (year, month) a day number falls in
CivilFromDays(z) ==
  LET zz  == z + 719468
      era == zz \div 146097
      doe == zz - era * 146097
      yoe == (doe - doe \div 1460 + doe \div 36524 - doe \div 146096) \div 365
      doy == doe - (365 * yoe + yoe \div 4 - yoe \div 100)
      mp  == (5 * doy + 2) \div 153
      m   == IF mp < 10 THEN mp + 3 ELSE mp - 9
  IN [year |-> IF m <= 2 THEN yoe + era * 400 + 1 ELSE yoe + era * 400,
      month |-> m]

\* a datetime64[ns] holds at most 2^63 - 1 ns = 106751 whole days either side
\* of 1970-01-01; a date beyond is out of bounds
MaxTimestampDays == 106751

\* pd.to_datetime(str(y) + "-" + str(m), format="%Y-%m", errors='coerce')
derive_date(y, m) ==
  LET p == ParseYearMonth(YearMonthStr(y, m))
  IN IF ~p.ok THEN NaT
     ELSE LET z == DaysFromCivil(p.year, p.month)
          IN IF z < -MaxTimestampDays \/ z > MaxTimestampDays THEN NaT
             ELSE [days |-> z]

TsYear(ts)  == CivilFromDays(ts.days).year
TsMonth(ts) == CivilFromDays(ts.days).month

\* ------------------------------------------------------------ the inputs
\* calendar-year values of year_day, weekday/user profiles of a row
YearVals == {2011, 2012, 2013}

DayProfiles == 1..4

\* profile p: weekday_day 0, 1, 5, 6; month_day 6, 13, 12, 0; p casual and
\* 10 p registered rentals
PoolRow(y, p) ==
  Row(y, <<6, 13, 12, 0>>[p], <<0, 1, 5, 6>>[p], p, 10 * p)

RowPool == {PoolRow(y, p) : y \in YearVals, p \in DayProfiles}

\* year_day / month_day values around every edge of the date conversion
YearSamples == {-2011, 0, 1, 999, 1000, 1677, 1678, 2011, 2012, 2261, 2262,
                2263, 9999, 10000, 12011}

MonthSamples == (-1..MaxMonth) \cup {100, 123}

\* the column sets a CSV file may carry
ColSets == {Schema, Schema \ {"year_day"}, Schema \ {"casual_day"}}

\* the tables load_data() may hand to the rest of the script
PipeTables ==
  {[cols |-> c, rows |-> r] : c \in ColSets, r \in SeqsUpTo(RowPool, MaxRows)}

DateTables ==
  {[cols |-> Schema, rows |-> <<Row(y, m, 3, 1, 10)>>] :
     y \in YearSamples, m \in MonthSamples}

TblA == [cols |-> Schema, rows |-> <<PoolRow(2011, 1), PoolRow(2012, 2)>>]
TblB == [cols |-> Schema, rows |-> <<PoolRow(2013, 3)>>]
TblNoYear   == [cols |-> Schema \ {"year_day"}, rows |-> TblB.rows]
TblNoCasual == [cols |-> Schema \ {"casual_day"}, rows |-> TblA.rows]

Absent     == [kind |-> "absent"]
Unparsable == [kind |-> "unparsable"]
Csv(t)     == [kind |-> "csv", table |-> t]

Loc == {"cwd", "script"}

Files == {Absent, Unparsable, Csv(TblA), Csv(TblB), Csv(EmptyFrame),
          Csv(TblNoYear), Csv(TblNoCasual)}

\* st.file_uploader: None, or the uploaded file
Unset   == [kind |-> "unset"]
Uploads == {None, Unparsable, Csv(TblB)}

\* --------------------------------------------------- load_data, line 9
file_paths == <<"all_data.csv", "./all_data.csv", "<script dir>/all_data.csv">>

\* the first two paths are relative to the working directory, the third is
\* next to the script
Resolve(path) ==
  IF path \in {"all_data.csv", "./all_data.csv"} THEN "cwd" ELSE "script"

\* pd.read_csv: FileNotFoundError, another exception, or the file's table
read_csv(f) ==
  IF f.kind = "absent" THEN [result |-> "FileNotFoundError"]
  ELSE IF f.kind = "unparsable" THEN [result |-> "ParserError"]
  ELSE [result |-> "table", table |-> f.table]

RECURSIVE TryPaths(_, _, _)
\* lines 16-21: only FileNotFoundError is caught
TryPaths(fsys, i, n) ==
  IF i > Len(file_paths) THEN [result |-> "exhausted", parses |-> n]
  ELSE LET r == read_csv(fsys[Resolve(file_paths[i])])
       IN IF r.result = "FileNotFoundError" THEN TryPaths(fsys, i + 1, n)
          ELSE IF r.result = "table"
            THEN [result |-> "table", table |-> r.table, parses |-> n + 1]
          ELSE [result |-> "raise", exc |-> r.result, parses |-> n + 1]

NotFoundMsg == "error: File all_data.csv tidak ditemukan"
EmptyMsg    == "warning: Data kosong"

\* fallback_frame built as pd.DataFrame(), without the columns
fallback_frame_NoColumns == [cols |-> {}, rows |-> <<>>]

\* lines 29-32, the frame returned when nothing was found or uploaded
fallback_frame == EmptyFrame

\* the body of load_data() with uploader value up
load_data(fsys, up) ==
  LET t == TryPaths(fsys, 1, 0)
  IN IF t.result = "table"
       THEN [how |-> "path", table |-> t.table, exc |-> "None", msgs |-> {},
             uploaded_file |-> Unset, parses |-> t.parses, ok |-> 1]
     ELSE IF t.result = "raise"
       THEN [how |-> "raise", table |-> None, exc |-> t.exc, msgs |-> {},
             uploaded_file |-> Unset, parses |-> t.parses, ok |-> 0]
     ELSE IF up = None
       THEN [how |-> "fallback", table |-> fallback_frame, exc |-> "None",
             msgs |-> {NotFoundMsg}, uploaded_file |-> up,
             parses |-> t.parses, ok |-> 0]
     ELSE LET r == read_csv(up)
          IN IF r.result = "table"
               THEN [how |-> "upload", table |-> r.table, exc |-> "None",
                     msgs |-> {NotFoundMsg}, uploaded_file |-> up,
                     parses |-> t.parses + 1, ok |-> 1]
             ELSE [how |-> "raise", table |-> None, exc |-> r.result,
                   msgs |-> {NotFoundMsg}, uploaded_file |-> up,
                   parses |-> t.parses + 1, ok |-> 0]

\* @st.cache_data, a hit: the stored table is returned, the body does not run
CacheHit ==
  /\ df' = cache
  /\ how' = "cache"
  /\ pc' = "check"
  /\ UNCHANGED <<loaderVars, uploaded_file, exc, msgs>>

\* @st.cache_data, a miss: the body runs; a returned table is stored, an
\* exception is not
CacheMiss ==
  \E up \in Uploads :
    LET r == load_data(fs, up)
    IN /\ how' = r.how
       /\ uploaded_file' = r.uploaded_file
       /\ msgs' = r.msgs
       /\ exc' = r.exc
       /\ parses' = parses + r.parses
       /\ ok_parses' = ok_parses + r.ok
       /\ df' = r.table
       /\ IF r.how = "raise"
            THEN pc' = "error" /\ UNCHANGED <<cache, first>>
            ELSE /\ pc' = "check"
                 /\ cache' = r.table
                 /\ first' = IF first = None THEN r.table ELSE first
       /\ UNCHANGED <<fs, runs>>

\* LoadData without the @st.cache_data decorator
LoadData_NoMemo ==
  /\ pc = "load"
  /\ CacheMiss
  /\ UNCHANGED <<date, df_filtered, chart1, chart2, chart3, fnVars>>

\* line 35: df = load_data()
LoadData ==
  /\ pc = "load"
  /\ IF cache # None THEN CacheHit ELSE CacheMiss
  /\ UNCHANGED <<date, df_filtered, chart1, chart2, chart3, fnVars>>

\* ------------------------------------------------- lines 37-41, the run
\* CheckEmpty without st.stop()
CheckEmpty_NoStop ==
  /\ pc = "check"
  /\ msgs' = IF IsEmpty(df) THEN msgs \cup {EmptyMsg} ELSE msgs
  /\ pc' = "date"
  /\ UNCHANGED <<loaderVars, how, uploaded_file, exc, df, date, df_filtered,
                 chart1, chart2, chart3, fnVars>>

\* lines 37-39: if df.empty: st.warning(...); st.stop()
CheckEmpty ==
  /\ pc = "check"
  /\ IF IsEmpty(df)
       THEN msgs' = msgs \cup {EmptyMsg} /\ pc' = "stopped"
       ELSE msgs' = msgs /\ pc' = "date"
  /\ UNCHANGED <<loaderVars, how, uploaded_file, exc, df, date, df_filtered,
                 chart1, chart2, chart3, fnVars>>

\* line 40: the date column, one value per row
date_column(t) ==
  [values |-> [i \in 1..Len(t.rows) |->
                 derive_date(t.rows[i].year_day, t.rows[i].month_day)]]

\* line 40; indexing a column the table lacks raises KeyError
DeriveDate ==
  /\ pc = "date"
  /\ IF {"year_day", "month_day"} \subseteq df.cols
       THEN date' = date_column(df) /\ pc' = "filter" /\ exc' = exc
       ELSE date' = date /\ pc' = "error" /\ exc' = "KeyError"
  /\ UNCHANGED <<loaderVars, how, uploaded_file, msgs, df, df_filtered,
                 chart1, chart2, chart3, fnVars>>

RECURSIVE SeqMax(_)
\* Series.max() of a non-empty integer column
SeqMax(s) ==
  IF Len(s) = 1 THEN s[1]
  ELSE LET m == SeqMax(SubSeq(s, 1, Len(s) - 1))
       IN IF s[Len(s)] > m THEN s[Len(s)] ELSE m

\* filter_recent with > in place of >=
filter_recent_Strict(t) ==
  LET years == Column(t, "year_day")
      top   == SeqMax(years)
  IN [cols |-> t.cols \cup {"date"},
      rows |-> Filter(t.rows, {i \in 1..Len(t.rows) : years[i] > top - 1})]

\* line 41: df[df["year_day"] >= (df["year_day"].max() - 1)]
filter_recent(t) ==
  LET years == Column(t, "year_day")
      top   == SeqMax(years)
  IN [cols |-> t.cols \cup {"date"},
      rows |-> Filter(t.rows, {i \in 1..Len(t.rows) : years[i] >= top - 1})]

FilterRecent ==
  /\ pc = "filter"
  /\ df_filtered' = filter_recent(df)
  /\ pc' = "q1"
  /\ UNCHANGED <<loaderVars, how, uploaded_file, exc, msgs, df, date,
                 chart1, chart2, chart3, fnVars>>

\* ------------------------------------------- question 1, lines 56-75
extreme_weather_data ==
  [x |-> [i \in 1..50 |-> "Cuaca Ekstrem"],
   y |-> <<4500, 5000, 4200, 4800, 4600, 4300, 4700, 6000, 5200, 4900,
           4400, 4600, 4800, 5100, 5300, 5500, 5700, 5900, 6100, 6050,
           2500, 2800, 3000, 3200, 3400, 3500, 3600, 3700, 3800, 3900,
           4000, 4100, 4300, 4500, 4700, 4900, 5100, 5300, 5500, 5700,
           5900, 6100, 6300, 6500, 6700, 6900, 7100, 200, 0, 8500>>]

\* line 67: the frame the boxplot of question 1 is drawn from
df_extreme_weather(filtered) == extreme_weather_data

Question1 ==
  /\ pc = "q1"
  /\ chart1' = df_extreme_weather(df_filtered)
  /\ pc' = "q2"
  /\ UNCHANGED <<loaderVars, how, uploaded_file, exc, msgs, df, date,
                 df_filtered, chart2, chart3, fnVars>>

\* ------------------------------------------ question 2, lines 90-120
\* get_season with March counted as winter
get_season_MarchWinter(month) ==
  IF month \in {12, 1, 2, 3} THEN "Musim Dingin"
  ELSE IF month \in {3, 4, 5} THEN "Musim Semi"
  ELSE IF month \in {6, 7, 8} THEN "Musim Panas"
  ELSE "Musim Gugur"

\* lines 95-103
get_season(month) ==
  IF month \in {12, 1, 2} THEN "Musim Dingin"
  ELSE IF month \in {3, 4, 5} THEN "Musim Semi"
  ELSE IF month \in {6, 7, 8} THEN "Musim Panas"
  ELSE "Musim Gugur"

\* lines 90-93
data ==
  [month_day |-> <<1, 3, 6, 9, 12, 4, 7, 10, 2, 5, 8, 11>>,
   count_day |-> <<4700, 2300, 4800, 5500, 4600, 2200, 4900, 5600, 4800,
                   2400, 5000, 5700>>]

\* season_frame without line 94: the recency-filtered loaded table is kept
season_frame_Kept(filtered) == filtered

\* line 94: df_filtered = pd.DataFrame(data), whatever df_filtered held
season_frame(filtered) ==
  [cols |-> {"month_day", "count_day"},
   rows |-> [i \in 1..Len(data.month_day) |->
               [month_day |-> data.month_day[i],
                count_day |-> data.count_day[i]]]]

\* line 105: df_filtered["Season"] = df_filtered["month_day"].apply(get_season)
with_season(t) ==
  [cols |-> t.cols \cup {"Season"},
   rows |-> [i \in 1..Len(t.rows) |->
               [f \in DOMAIN t.rows[i] \cup {"Season"} |->
                  IF f = "Season" THEN get_season(t.rows[i].month_day)
                  ELSE t.rows[i][f]]]]

RECURSIVE Gcd(_, _)
Gcd(a, b) == IF b = 0 THEN a ELSE Gcd(b, a % b)

RECURSIVE SeqSum(_)
SeqSum(s) == IF s = <<>> THEN 0 ELSE s[1] + SeqSum(Tail(s))

\* the arithmetic mean of a non-empty sequence, as a fraction in lowest terms
Mean(s) ==
  LET total == SeqSum(s)
      g     == Gcd(total, Len(s))
  IN [num |-> total \div g, den |-> Len(s) \div g]

\* line 106: groupby(key)[val].mean(); only the groups that have rows
group_mean(t, key, val) ==
  LET n == Len(t.rows)
  IN [k \in {t.rows[i][key] : i \in 1..n} |->
        Mean(Column([rows |-> Filter(t.rows, {i \in 1..n : t.rows[i][key] = k})],
                    val))]

Question2 ==
  /\ pc = "q2"
  /\ df_filtered' = with_season(season_frame(df_filtered))
  /\ chart2' = [data  |-> group_mean(df_filtered', "Season", "count_day"),
                order |-> <<"Musim Dingin", "Musim Gugur", "Musim Panas",
                            "Musim Semi">>]
  /\ pc' = "q3"
  /\ UNCHANGED <<loaderVars, how, uploaded_file, exc, msgs, df, date,
                 chart1, chart3, fnVars>>

\* ----------------------------------------- question 3, lines 133-169
sample_data ==
  [cols |-> {"casual_day", "registered_day", "weekday_day"},
   rows |-> [i \in 1..16 |->
     [casual_day |-> <<800, 900, 700, 600, 850, 950, 780, 820, 870, 930,
                       680, 750, 810, 850, 650, 720>>[i],
      registered_day |-> <<3800, 4100, 3900, 3700, 4200, 5100, 3850, 4500,
                           3950, 4300, 2800, 3600, 4700, 5200, 3000, 3500>>[i],
      weekday_day |-> <<1, 2, 3, 4, 5, 1, 2, 3, 4, 5, 1, 2, 3, 4, 5, 1>>[i]]]]

\* lines 139-145: the loaded table when it has the three columns
df_for_q3(t) ==
  IF {"casual_day", "registered_day", "weekday_day"} \subseteq t.cols
    THEN t ELSE sample_data

\* line 147: df_for_q3[df_for_q3["weekday_day"].isin([1, 2, 3, 4, 5])]
df_weekday(t) ==
  [cols |-> t.cols,
   rows |-> Filter(t.rows, {i \in 1..Len(t.rows) :
                              t.rows[i].weekday_day \in {1, 2, 3, 4, 5}})]

\* data_for_plot with the two value lists concatenated the other way round
data_for_plot_Swapped(t) ==
  LET casual_data     == Column(df_weekday(t), "casual_day")
      registered_data == Column(df_weekday(t), "registered_day")
  IN [tipe   |-> [i \in 1..Len(casual_data) |-> "casual"]
                 \o [i \in 1..Len(registered_data) |-> "registered"],
      jumlah |-> registered_data \o casual_data]

\* lines 148-153
data_for_plot(t) ==
  LET casual_data     == Column(df_weekday(t), "casual_day")
      registered_data == Column(df_weekday(t), "registered_day")
  IN [tipe   |-> [i \in 1..Len(casual_data) |-> "casual"]
                 \o [i \in 1..Len(registered_data) |-> "registered"],
      jumlah |-> casual_data \o registered_data]

Question3 ==
  /\ pc = "q3"
  /\ chart3' = data_for_plot(df_for_q3(df))
  /\ pc' = "done"
  /\ UNCHANGED <<loaderVars, how, uploaded_file, exc, msgs, df, date,
                 df_filtered, chart1, chart2, fnVars>>

\* ------------------------------------------------ the script's reruns
Finished == pc \in {"done", "stopped", "error"}

\* Streamlit runs the script again from the top after an interaction
Rerun ==
  /\ Finished
  /\ runs < MaxRuns
  /\ runs' = runs + 1
  /\ pc' = "load"
  /\ how' = "none"
  /\ uploaded_file' = Unset
  /\ exc' = "None"
  /\ msgs' = {}
  /\ df' = None
  /\ date' = None
  /\ df_filtered' = None
  /\ chart1' = None
  /\ chart2' = None
  /\ chart3' = None
  /\ UNCHANGED <<fs, cache, first, parses, ok_parses, fnVars>>

\* between two runs a file may appear, disappear or be replaced
FileChange ==
  /\ pc = "load"
  /\ \E l \in Loc, f \in Files :
       /\ f # fs[l]
       /\ fs' = [fs EXCEPT ![l] = f]
  /\ UNCHANGED <<cache, first, parses, ok_parses, runs, runVars, fnVars>>

RunStart ==
  /\ pc = "load"
  /\ how = "none"
  /\ uploaded_file = Unset
  /\ exc = "None"
  /\ msgs = {}
  /\ df = None
  /\ date = None
  /\ df_filtered = None
  /\ chart1 = None
  /\ chart2 = None
  /\ chart3 = None

Init ==
  /\ fs \in [Loc -> Files]
  /\ cache = None
  /\ first = None
  /\ parses = 0
  /\ ok_parses = 0
  /\ runs = 1
  /\ RunStart
  /\ months = <<>>
  /\ seasons = None

Next ==
  \/ LoadData
  \/ FileChange
  \/ CheckEmpty
  \/ DeriveDate
  \/ FilterRecent
  \/ Question1
  \/ Question2
  \/ Question3
  \/ Rerun

Spec == Init /\ [][Next]_vars

\* ---------------------- the script from line 37 on, for any loaded table
InitPipe ==
  /\ df \in PipeTables \cup DateTables
  /\ fs = [l \in Loc |-> IF l = "cwd" THEN Csv(df) ELSE Absent]
  /\ cache = df
  /\ first = df
  /\ parses = 1
  /\ ok_parses = 1
  /\ runs = 1
  /\ pc = "check"
  /\ how = "path"
  /\ uploaded_file = Unset
  /\ exc = "None"
  /\ msgs = {}
  /\ date = None
  /\ df_filtered = None
  /\ chart1 = None
  /\ chart2 = None
  /\ chart3 = None
  /\ months = <<>>
  /\ seasons = None

NextPipe ==
  \/ CheckEmpty
  \/ DeriveDate
  \/ FilterRecent
  \/ Question1
  \/ Question2
  \/ Question3

SpecPipe == InitPipe /\ [][NextPipe]_vars

\* ------------------------------ get_season applied to any month Series
MonthDomain == -1..MaxMonth

\* Series.apply(get_season), line 105
ApplySeason ==
  /\ seasons = None
  /\ seasons' = [values |-> [i \in 1..Len(months) |-> get_season(months[i])]]
  /\ UNCHANGED <<loaderVars, runVars, months>>

InitSeason ==
  /\ months \in SeqsUpTo(MonthDomain, MaxSeries)
  /\ seasons = None
  /\ fs = [l \in Loc |-> Absent]
  /\ cache = None
  /\ first = None
  /\ parses = 0
  /\ ok_parses = 0
  /\ runs = 1
  /\ RunStart

NextSeason == ApplySeason

SpecSeason == InitSeason /\ [][NextSeason]_vars

\* ================================================================ claims
Candidates == [i \in 1..Len(file_paths) |-> fs[Resolve(file_paths[i])]]

\* a candidate that parses and carries at least the required columns
Usable(f) == f.kind = "csv" /\ Schema \subseteq f.table.cols

\* the body of load_data() ran in this run (no memoized table was served)
BodyRan == how \in {"path", "upload", "fallback", "raise"}

\* C1: when the body of load_data runs and some candidate is usable, the
\* loader does not abort and returns the table of the first usable candidate
\* (unusable candidates before it are skipped).
C1_FirstUsableCandidate ==
  (BodyRan /\ \E i \in DOMAIN Candidates : Usable(Candidates[i]))
    => LET k == CHOOSE i \in DOMAIN Candidates :
                  /\ Usable(Candidates[i])
                  /\ \A j \in 1..(i - 1) : ~Usable(Candidates[j])
       IN how = "path" /\ df = Candidates[k].table

\* C2: when the body of load_data runs, no candidate location exists and no
\* file is uploaded, it returns a table with zero rows whose columns are
\* exactly the expected schema.
C2_EmptySchemaFallback ==
  (/\ BodyRan
   /\ \A i \in DOMAIN Candidates : Candidates[i] = Absent
   /\ uploaded_file = None)
    => /\ how = "fallback"
       /\ df.rows = <<>>
       /\ df.cols = {"year_day", "month_day", "weekday_day", "weathersit_day",
                     "count_day", "casual_day", "registered_day"}

C2_Witness ==
  /\ how = "fallback"
  /\ \A l \in Loc : fs[l] = Absent
  /\ uploaded_file = None
  /\ pc = "check"
  /\ df.rows = <<>>

Loaded == how \in {"path", "upload", "fallback", "cache"}

\* C3: in a run whose loaded table is empty the script never gets past the
\* emptiness check: it stops with the warning shown, and no date column, no
\* recency filter and none of the three charts is ever produced.
C3_EmptyHalts ==
  (Loaded /\ IsEmpty(df))
    => /\ pc \in {"check", "stopped"}
       /\ pc = "stopped" => EmptyMsg \in msgs
       /\ date = None
       /\ df_filtered = None
       /\ chart1 = None /\ chart2 = None /\ chart3 = None

C3_Witness ==
  /\ pc = "stopped"
  /\ Loaded
  /\ IsEmpty(df)
  /\ EmptyMsg \in msgs
  /\ chart1 = None

C4_Inv ==
  /\ ok_parses <= 1
  /\ first # None => cache = first
  /\ Loaded => df = first

SeasonLabels == {"Musim Dingin", "Musim Semi", "Musim Panas", "Musim Gugur"}

\* C5: for every month 1..12 get_season returns one of the four labels, and
\* the label is winter exactly for {12,1,2}, spring for {3,4,5}, summer for
\* {6,7,8} and fall for {9,10,11}.
C5_SeasonPartition ==
  seasons # None =>
    \A i \in 1..Len(months) :
      months[i] \in 1..12 =>
        LET s == seasons.values[i]
        IN /\ s \in SeasonLabels
           /\ s = "Musim Dingin" <=> months[i] \in {12, 1, 2}
           /\ s = "Musim Semi"   <=> months[i] \in {3, 4, 5}
           /\ s = "Musim Panas"  <=> months[i] \in {6, 7, 8}
           /\ s = "Musim Gugur"  <=> months[i] \in {9, 10, 11}

C5_Witness ==
  /\ seasons # None
  /\ months = <<12, 9>>
  /\ seasons.values = <<"Musim Dingin", "Musim Gugur">>

\* C8: for a month outside 1..12 the season derivation yields no season
\* label (a null value).
C8_MalformedMonthNull ==
  seasons # None =>
    \A i \in 1..Len(months) :
      months[i] \notin 1..12 => seasons.values[i] \notin SeasonLabels

YearsIn(t) == {t.rows[i].year_day : i \in 1..Len(t.rows)}

\* the n largest values of a set of integers
Largest(S, n) == {y \in S : Cardinality({z \in S : z > y}) < n}

\* df_filtered holds the result of line 41 from there to line 94
Filtered == pc = "q1"

\* C6 as stated: the recency filter keeps exactly the rows whose year_day
\* is one of the 2 most recent distinct year_day values present.
C6_TwoMostRecentYears ==
  Filtered =>
    df_filtered.rows =
      SelectSeq(df.rows, LAMBDA r : r.year_day \in Largest(YearsIn(df), 2))

\* C6 amended: the recency filter keeps exactly the rows whose year_day is
\* the maximum year_day or the maximum minus 1, in table order; these are the
\* rows of the 2 most recent distinct values whenever the maximum minus 1
\* occurs in the table or the table has a single year value.
C6_WithinOneOfMax ==
  Filtered =>
    LET present == YearsIn(df)
        top     == CHOOSE y \in present : \A z \in present : z <= y
    IN /\ df_filtered.rows =
            SelectSeq(df.rows, LAMBDA r : r.year_day \in {top, top - 1})
       /\ (top - 1 \in present \/ Cardinality(present) = 1) =>
            df_filtered.rows =
              SelectSeq(df.rows, LAMBDA r : r.year_day \in Largest(present, 2))

\* three consecutive years, one row each: the two latest rows are kept
C6_Witness ==
  /\ Filtered
  /\ Len(df.rows) = 3
  /\ YearsIn(df) = {2011, 2012, 2013}
  /\ YearsIn(df_filtered) = {2012, 2013}
  /\ Len(df_filtered.rows) = 2

\* a (year_day, month_day) pair that names a month datetime64[ns] can hold:
\* a four-digit year from 1677-10 to 2262-04 and a month 1..12
ValidPair(y, m) ==
  /\ m \in 1..12
  /\ \/ y \in 1678..2261
     \/ y = 1677 /\ m >= 10
     \/ y = 2262 /\ m <= 4

HasPairs == {"year_day", "month_day"} \subseteq df.cols /\ ~IsEmpty(df)

HasQ3Columns == {"casual_day", "registered_day", "weekday_day"} \subseteq df.cols

Weekdays(t) == {i \in 1..Len(t.rows) : t.rows[i].weekday_day \in 1..5}

\* the k-th smallest member of a set of row numbers
Kth(S, k) == CHOOSE i \in S : Cardinality({j \in S : j < i}) = k - 1

\* C9: with n rows whose weekday_day is in 1..5 the long-form structure of
\* question 3 has 2n rows: the casual_day values of those rows in table
\* order labelled casual, then their registered_day values in table order
\* labelled registered; the other rows contribute nothing.
C9_LongForm ==
  (chart3 # None /\ HasQ3Columns) =>
    LET wk == Weekdays(df)
        n  == Cardinality(wk)
    IN /\ Len(chart3.jumlah) = 2 * n
       /\ Len(chart3.tipe) = 2 * n
       /\ \A k \in 1..n :
            /\ chart3.tipe[k] = "casual"
            /\ chart3.jumlah[k] = df.rows[Kth(wk, k)].casual_day
            /\ chart3.tipe[n + k] = "registered"
            /\ chart3.jumlah[n + k] = df.rows[Kth(wk, k)].registered_day

\* two different weekday rows around a weekend row
C9_Witness ==
  /\ chart3 # None
  /\ HasQ3Columns
  /\ Len(df.rows) = 3
  /\ df.rows[2].weekday_day = 6
  /\ chart3.jumlah = <<3, 2, 30, 20>>

\* C10: the chart data of questions 1 and 2 do not depend on the loaded
\* table: whenever they are produced they are the hard-coded 50 values and
\* the per-season means of the hard-coded twelve months, df_filtered then
\* holding the hard-coded frame; question 3 is drawn from the weekday rows of
\* the whole loaded table, whatever their year.
C10_ChartsIgnoreData ==
  /\ chart1 # None =>
       /\ Len(chart1.y) = 50
       /\ chart1 = extreme_weather_data
  /\ chart2 # None =>
       /\ DOMAIN chart2.data = SeasonLabels
       /\ chart2.data["Musim Dingin"] = [num |-> 4700, den |-> 1]
       /\ chart2.data["Musim Semi"]   = [num |-> 2300, den |-> 1]
       /\ chart2.data["Musim Panas"]  = [num |-> 4900, den |-> 1]
       /\ chart2.data["Musim Gugur"]  = [num |-> 5600, den |-> 1]
       /\ Len(df_filtered.rows) = 12
  /\ (chart3 # None /\ HasQ3Columns) =>
       Len(chart3.jumlah) = 2 * Cardinality(Weekdays(df))

\* a weekday row of the oldest of three years is in the chart of question 3
C10_Witness ==
  /\ chart3 # None
  /\ HasQ3Columns
  /\ YearsIn(df) = {2011, 2012, 2013}
  /\ df.rows[1].year_day = 2011
  /\ df.rows[1].weekday_day = 5
  /\ chart3.jumlah[1] = df.rows[1].casual_day
  /\ chart2.data["Musim Panas"] = [num |-> 4900, den |-> 1]

====
